---- MODULE Spec2Model ----
(***************************************************************************)
(* State machine of the Calculator component                                *)
(* (src/src/components/Calculator.js).                                     *)
(*                                                                         *)
(* Strings are sequences of one-character strings.  A JavaScript number is  *)
(* a record [k, s, m, e]: k = "fin" stands for the number s * m / 10^e      *)
(* (s = -1 with m = 0 is the negative zero), k = "inf" for s * Infinity,    *)
(* k = "nan" for NaN and k = "null" for the null of the two number states.  *)
(* Arithmetic is carried out only where IEEE double arithmetic and exact    *)
(* decimal arithmetic print the same text: on operands that are exactly     *)
(* representable (integers and dyadic fractions) and results that are short *)
(* terminating decimals (see InDomain).                                     *)
(***************************************************************************)
EXTENDS Integers, Sequences, FiniteSets, TLC

VARIABLES displayValue, isDirty, isPending, value, operator,
          previousValue, previousOperator, thrown, keys, hist, last, prev,
          variant, outside

vars == <<displayValue, isDirty, isPending, value, operator,
          previousValue, previousOperator, thrown, keys, hist, last, prev,
          variant, outside>>

\* the component's state as one record
state ==
    [displayValue |-> displayValue, isDirty |-> isDirty, isPending |-> isPending,
     value |-> value, operator |-> operator, previousValue |-> previousValue,
     previousOperator |-> previousOperator]

(***************************************************************************)
(* Bounds of the model.                                                     *)
(***************************************************************************)
\* longest display text the keys may type
MaxLen == 4
\* largest mantissa of a computed number
MaxMant == 999
\* largest number of fractional digits of a computed number
MaxExp == 3
\* longest session: number of keys pressed since the component was mounted
MaxKeys == 5
\* longest recorded key sequence of the scripted sessions
MaxHist == 6
\* most sign keys of a scripted session
MaxSigns == 1
\* longest operand typed before percent in the percent specification
MaxPercentDigits == 2
MaxBothKeys == 5

\* Number.prototype.toFixed accepts 0..100 fraction digits
ToFixedMax == 100

(***************************************************************************)
(* Characters and strings.                                                  *)
(***************************************************************************)
DigitChars == <<"0", "1", "2", "3", "4", "5", "6", "7", "8", "9">>

IsDigit(c) == \E i \in 1..10 : DigitChars[i] = c

DigitVal(c) == (CHOOSE i \in 1..10 : DigitChars[i] = c) - 1

AllDigits(str) == \A i \in 1..Len(str) : IsDigit(str[i])

\* String.prototype.startsWith('-')
StartsWithMinus(str) == Len(str) > 0 /\ str[1] = "-"

\* /\./.test(str)
HasDot(str) == \E i \in 1..Len(str) : str[i] = "."

\* str.slice(1)
Slice1(str) == SubSeq(str, 2, Len(str))

\* str.slice(0, -1)
SliceLast(str) == SubSeq(str, 1, Len(str) - 1)

\* n zeros
Zeros(n) == [i \in 1..n |-> "0"]

RECURSIVE Pow10(_)
Pow10(n) == IF n <= 0 THEN 1 ELSE 10 * Pow10(n - 1)

\* a digit string without its leading zeros
Significant(str) ==
    LET nz == {i \in 1..Len(str) : str[i] # "0"}
    IN  IF nz = {} THEN <<>>
        ELSE SubSeq(str, CHOOSE i \in nz : \A j \in nz : i <= j, Len(str))

RECURSIVE DigitsValue(_)
DigitsValue(str) ==
    IF Len(str) = 0 THEN 0
    ELSE 10 * DigitsValue(SliceLast(str)) + DigitVal(str[Len(str)])

\* value of a digit string, leading zeros allowed
DigitsToNat(str) == DigitsValue(Significant(str))

\* decimal digits of a natural number, no leading zeros ("0" for 0)
RECURSIVE NatToDigits(_)
NatToDigits(n) ==
    IF n < 10 THEN <<DigitChars[n + 1]>>
    ELSE NatToDigits(n \div 10) \o <<DigitChars[(n % 10) + 1]>>

\* length of the longest prefix of digits
DigitPrefixLen(str) ==
    CHOOSE n \in 0..Len(str) :
        /\ \A i \in 1..n : IsDigit(str[i])
        /\ n < Len(str) => ~IsDigit(str[n + 1])

(***************************************************************************)
(* Numbers.                                                                 *)
(***************************************************************************)
Null == [k |-> "null", s |-> 1, m |-> 0, e |-> 0]
NaN == [k |-> "nan", s |-> 1, m |-> 0, e |-> 0]
Inf(s) == [k |-> "inf", s |-> s, m |-> 0, e |-> 0]

\* s * m / 10^e with the trailing zeros of the fraction removed
RECURSIVE Fin(_, _, _)
Fin(s, m, e) ==
    IF m = 0 THEN [k |-> "fin", s |-> s, m |-> 0, e |-> 0]
    ELSE IF e > 0 /\ m % 10 = 0 THEN Fin(s, m \div 10, e - 1)
    ELSE [k |-> "fin", s |-> s, m |-> m, e |-> e]

Zero == Fin(1, 0, 0)

IntNum(n) == IF n < 0 THEN Fin(-1, -n, 0) ELSE Fin(1, n, 0)

IsZero(x) == x.k = "fin" /\ x.m = 0

\* unary minus
Neg(x) == IF x.k = "nan" THEN x ELSE [x EXCEPT !.s = -x.s]

\* x || 0: null, NaN, 0 and -0 are falsy
OrZero(x) == IF x.k \in {"null", "nan"} \/ IsZero(x) THEN Zero ELSE x

\* Number(str) of the string-to-number conversion
Number(str) ==
    LET neg == StartsWithMinus(str)
        body == IF neg THEN Slice1(str) ELSE str
        n == DigitPrefixLen(body)
        int == SubSeq(body, 1, n)
        rest == SubSeq(body, n + 1, Len(body))
        frac == IF Len(rest) > 0 /\ rest[1] = "." THEN Slice1(rest) ELSE rest
        sign == IF neg THEN -1 ELSE 1
    IN  IF Len(str) = 0 THEN Zero
        ELSE IF body = <<"I", "n", "f", "i", "n", "i", "t", "y">> THEN Inf(sign)
        ELSE IF AllDigits(frac) /\ Len(int) + Len(frac) > 0
             THEN Fin(sign, DigitsToNat(int \o frac), Len(frac))
        ELSE NaN

\* the plain decimal text of m / 10^e with exactly e fractional digits
Decimal(m, e) ==
    LET d == NatToDigits(m)
    IN  IF e = 0 THEN d
        ELSE IF Len(d) > e
             THEN SubSeq(d, 1, Len(d) - e) \o <<".">> \o SubSeq(d, Len(d) - e + 1, Len(d))
        ELSE <<"0", ".">> \o Zeros(e - Len(d)) \o d

\* String(x) of a number (plain decimal notation: 1e-6 <= |x| < 1e21)
String(x) ==
    IF x.k = "nan" THEN <<"N", "a", "N">>
    ELSE IF x.k = "inf"
         THEN (IF x.s < 0 THEN <<"-">> ELSE <<>>) \o <<"I", "n", "f", "i", "n", "i", "t", "y">>
    ELSE IF x.m = 0 THEN <<"0">>
    ELSE (IF x.s < 0 THEN <<"-">> ELSE <<>>) \o Decimal(x.m, x.e)

\* x.toFixed(f) for 0 <= f <= 100 and |x| < 1e21: x rounded to f fractional
\* digits, ties to the larger magnitude; the sign is kept for every x < 0
ToFixed(x, f) ==
    IF x.k \in {"nan", "inf"} THEN String(x)
    ELSE LET n == IF x.e <= f THEN x.m
                  ELSE (x.m + 5 * Pow10(x.e - f - 1)) \div Pow10(x.e - f)
             digits == IF x.e <= f THEN Decimal(x.m, x.e) \o
                                        (IF x.e = 0 /\ f > 0 THEN <<".">> ELSE <<>>) \o
                                        Zeros(f - x.e)
                       ELSE Decimal(n, f)
         IN  (IF x.s < 0 /\ x.m > 0 THEN <<"-">> ELSE <<>>) \o digits

(***************************************************************************)
(* Arithmetic of the OPERATIONS table.                                      *)
(***************************************************************************)
RECURSIVE GCD(_, _)
GCD(a, b) == IF b = 0 THEN a ELSE GCD(b, a % b)

\* number of times p divides n (n > 0)
RECURSIVE Multiplicity(_, _)
Multiplicity(n, p) == IF n % p = 0 THEN 1 + Multiplicity(n \div p, p) ELSE 0

RECURSIVE Pow(_, _)
Pow(b, n) == IF n <= 0 THEN 1 ELSE b * Pow(b, n - 1)

Max(a, b) == IF a >= b THEN a ELSE b

\* a finite number small enough for the model's integer arithmetic
Small(x) == x.k = "fin" => (x.m <= MaxMant /\ x.e <= MaxExp)

\* a finite number that a double holds exactly: an integer or a dyadic fraction
Exact(x) == x.k = "fin" => x.m % Pow(5, x.e) = 0

\* previous + next
Add(x, y) ==
    IF x.k = "nan" \/ y.k = "nan" THEN NaN
    ELSE IF x.k = "inf" /\ y.k = "inf" THEN (IF x.s = y.s THEN x ELSE NaN)
    ELSE IF x.k = "inf" THEN x
    ELSE IF y.k = "inf" THEN y
    ELSE LET e == Max(x.e, y.e)
             sum == x.s * x.m * Pow10(e - x.e) + y.s * y.m * Pow10(e - y.e)
         IN  IF sum = 0 THEN Fin(IF x.s < 0 /\ y.s < 0 THEN -1 ELSE 1, 0, 0)
             ELSE IF sum < 0 THEN Fin(-1, -sum, e)
             ELSE Fin(1, sum, e)

\* previous - next
Sub(x, y) == Add(x, Neg(y))

\* previous * next
Mul(x, y) ==
    IF x.k = "nan" \/ y.k = "nan" THEN NaN
    ELSE IF x.k = "inf" \/ y.k = "inf"
         THEN (IF IsZero(x) \/ IsZero(y) THEN NaN ELSE Inf(x.s * y.s))
    ELSE Fin(x.s * y.s, x.m * y.m, x.e + y.e)

\* the quotient of two finite non-zero numbers in lowest terms
Quotient(x, y) ==
    LET num == x.m * Pow10(y.e)
        den == y.m * Pow10(x.e)
        g == GCD(num, den)
    IN  [n |-> num \div g, d |-> den \div g]

\* the quotient is a terminating decimal within the model's number bounds
ShortQuotient(x, y) ==
    LET q == Quotient(x, y)
        a == Multiplicity(q.d, 2)
        b == Multiplicity(q.d, 5)
    IN  /\ q.d = Pow(2, a) * Pow(5, b)
        /\ Max(a, b) <= MaxExp
        /\ q.n <= MaxMant
        /\ q.n * (Pow10(Max(a, b)) \div q.d) <= MaxMant

\* previous / next
Div(x, y) ==
    IF x.k = "nan" \/ y.k = "nan" THEN NaN
    ELSE IF x.k = "inf" THEN (IF y.k = "inf" THEN NaN ELSE Inf(x.s * y.s))
    ELSE IF y.k = "inf" THEN Fin(x.s * y.s, 0, 0)
    ELSE IF IsZero(y) THEN (IF IsZero(x) THEN NaN ELSE Inf(x.s * y.s))
    ELSE IF IsZero(x) THEN Fin(x.s * y.s, 0, 0)
    ELSE LET q == Quotient(x, y)
             j == Max(Multiplicity(q.d, 2), Multiplicity(q.d, 5))
         IN  Fin(x.s * y.s, q.n * (Pow10(j) \div q.d), j)

Operators == {"+", "-", "*", "/", "="}

\* OPERATIONS[op](previous, next)
OPERATIONS(op, previous, next) ==
    CASE op = "+" -> Add(previous, next)
      [] op = "-" -> Sub(previous, next)
      [] op = "*" -> Mul(previous, next)
      [] op = "/" -> Div(previous, next)
      [] op = "=" -> next

\* OPERATIONS[op](previous, next) is computed by the model as the double
\* arithmetic computes and prints it
InDomain(op, previous, next) ==
    \/ op = "="
    \/ /\ Small(previous) /\ Small(next)
       /\ Exact(previous) /\ Exact(next)
       /\ IF op = "/" /\ previous.k = "fin" /\ next.k = "fin"
             /\ ~IsZero(previous) /\ ~IsZero(next)
          THEN ShortQuotient(previous, next)
          ELSE Small(OPERATIONS(op, previous, next))

(***************************************************************************)
(* The component's state and handlers.                                      *)
(***************************************************************************)
\* the useState initial values
InitialState ==
    [displayValue |-> <<"0">>, isDirty |-> FALSE, isPending |-> FALSE,
     value |-> Null, operator |-> "=", previousValue |-> Null,
     previousOperator |-> "="]

\* the state of the earlier variant of the component (part_001) when mounted
part001_InitialState ==
    [current |-> <<"0">>, isPending |-> FALSE, value |-> Null, operator |-> "=",
     lastValue |-> Zero, lastOperator |-> "="]

\* the mounted component; last and prev record the last key and the state it
\* was pressed in, keys and hist the keys pressed so far; variant is the
\* earlier variant of the component given the same keys, outside records
\* that the keys left the sequences on which the two variants are compared
Init ==
    /\ displayValue = <<"0">>
    /\ isDirty = FALSE
    /\ isPending = FALSE
    /\ value = Null
    /\ operator = "="
    /\ previousValue = Null
    /\ previousOperator = "="
    /\ thrown = FALSE
    /\ keys = 0
    /\ hist = <<>>
    /\ last = "mount"
    /\ prev = InitialState
    /\ variant = part001_InitialState
    /\ outside = FALSE

\* reset that keeps the operator
resetKeepsOperator ==
    /\ displayValue' = <<"0">>
    /\ isDirty' = FALSE
    /\ isPending' = FALSE
    /\ value' = Null
    /\ previousValue' = Null
    /\ previousOperator' = "="
    /\ UNCHANGED <<operator, thrown>>

reset ==
    /\ displayValue' = <<"0">>
    /\ isDirty' = FALSE
    /\ isPending' = FALSE
    /\ value' = Null
    /\ operator' = "="
    /\ previousValue' = Null
    /\ previousOperator' = "="
    /\ UNCHANGED thrown

\* clear that also drops the accumulated value
clearDropsValue ==
    /\ displayValue' = <<"0">>
    /\ isDirty' = FALSE
    /\ isPending' = IF operator # "=" THEN TRUE ELSE isPending
    /\ value' = Null
    /\ UNCHANGED <<operator, previousValue, previousOperator, thrown>>

\* clear that leaves the display as it is
clearKeepsDisplay ==
    /\ isDirty' = FALSE
    /\ isPending' = IF operator # "=" THEN TRUE ELSE isPending
    /\ UNCHANGED <<displayValue, value, operator, previousValue, previousOperator, thrown>>

clear ==
    /\ displayValue' = <<"0">>
    /\ isDirty' = FALSE
    /\ isPending' = IF operator # "=" THEN TRUE ELSE isPending
    /\ UNCHANGED <<value, operator, previousValue, previousOperator, thrown>>

\* changeSign that leaves isPending set after an operator
changeSignKeepsPending ==
    IF isPending /\ operator # "="
    THEN /\ displayValue' = <<"-", "0">>
         /\ isDirty' = TRUE
         /\ UNCHANGED <<isPending, value, operator, previousValue, previousOperator, thrown>>
    ELSE /\ displayValue' = IF StartsWithMinus(displayValue)
                            THEN Slice1(displayValue)
                            ELSE <<"-">> \o displayValue
         /\ isDirty' = IF displayValue \notin {<<"0">>, <<"-", "0">>} THEN TRUE ELSE isDirty
         /\ UNCHANGED <<isPending, value, operator, previousValue, previousOperator, thrown>>

changeSign ==
    IF isPending /\ operator # "="
    THEN /\ displayValue' = <<"-", "0">>
         /\ isDirty' = TRUE
         /\ isPending' = FALSE
         /\ UNCHANGED <<value, operator, previousValue, previousOperator, thrown>>
    ELSE /\ displayValue' = IF StartsWithMinus(displayValue)
                            THEN Slice1(displayValue)
                            ELSE <<"-">> \o displayValue
         /\ isDirty' = IF displayValue \notin {<<"0">>, <<"-", "0">>} THEN TRUE ELSE isDirty
         /\ UNCHANGED <<isPending, value, operator, previousValue, previousOperator, thrown>>

\* displayValue.replace(/^-?\d*\.?/, '')
DecimalPart(str) ==
    LET body == IF StartsWithMinus(str) THEN Slice1(str) ELSE str
        rest == SubSeq(body, DigitPrefixLen(body) + 1, Len(body))
    IN  IF Len(rest) > 0 /\ rest[1] = "." THEN Slice1(rest) ELSE rest

\* number / 100.0
Div100(x) == IF x.k = "fin" THEN Fin(x.s, x.m, x.e + 2) ELSE x

handlePercent ==
    LET number == Number(displayValue)
        decimalPart == DecimalPart(displayValue)
        newValue == Div100(number)
    IN  IF IsZero(number)
        THEN UNCHANGED <<displayValue, isDirty, isPending, value, operator,
                         previousValue, previousOperator, thrown>>
        ELSE IF Len(decimalPart) + 2 > ToFixedMax
        THEN \* toFixed throws a RangeError before any state is set
             /\ thrown' = TRUE
             /\ UNCHANGED <<displayValue, isDirty, isPending, value, operator,
                            previousValue, previousOperator>>
        ELSE /\ displayValue' = ToFixed(newValue, Len(decimalPart) + 2)
             /\ isDirty' = TRUE
             /\ UNCHANGED <<isPending, value, operator, previousValue,
                            previousOperator, thrown>>

\* the guard of calculateAgain: it returns true and acts
calculateAgainApplies(nextOperator) ==
    ~(previousOperator = "=" \/ nextOperator # "=")

\* the guard of pendingCalculation: it returns true and acts
pendingCalculationApplies(nextOperator) ==
    ~(nextOperator = "=" /\ operator # "=")

\* calculateAgain with the operands of the repeated operation exchanged
calculateAgainSwapped(nextOperator) ==
    LET newValue == OPERATIONS(previousOperator, OrZero(previousValue), Number(displayValue))
    IN  /\ value' = newValue
        /\ displayValue' = String(newValue)
        /\ isDirty' = TRUE
        /\ isPending' = TRUE
        /\ UNCHANGED <<operator, previousValue, previousOperator, thrown>>

calculateAgain(nextOperator) ==
    LET newValue == OPERATIONS(previousOperator, Number(displayValue), OrZero(previousValue))
    IN  /\ value' = newValue
        /\ displayValue' = String(newValue)
        /\ isDirty' = TRUE
        /\ isPending' = TRUE
        /\ UNCHANGED <<operator, previousValue, previousOperator, thrown>>

\* pendingCalculation that also forgets the operator of the last operation
pendingCalculationForgets(nextOperator) ==
    /\ operator' = nextOperator
    /\ previousOperator' = "="
    /\ UNCHANGED <<displayValue, isDirty, isPending, value, previousValue, thrown>>

\* pendingCalculation that ignores the operator key
pendingCalculationIgnores(nextOperator) ==
    UNCHANGED <<displayValue, isDirty, isPending, value, operator, previousValue,
                previousOperator, thrown>>

pendingCalculation(nextOperator) ==
    /\ operator' = nextOperator
    /\ UNCHANGED <<displayValue, isDirty, isPending, value, previousValue,
                   previousOperator, thrown>>

\* applyAndChain with the operands of the operation exchanged
applyAndChainSwapped(nextOperator) ==
    LET number == Number(displayValue)
        newValue == OPERATIONS(operator, number, OrZero(value))
    IN  /\ IF value = Null
           THEN /\ value' = number
                /\ UNCHANGED <<previousValue, displayValue, isDirty>>
           ELSE /\ value' = newValue
                /\ previousValue' = number
                /\ displayValue' = String(newValue)
                /\ isDirty' = TRUE
        /\ isPending' = TRUE
        /\ previousOperator' = operator
        /\ operator' = nextOperator
        /\ UNCHANGED thrown

\* the rest of calculate, once calculateAgain and pendingCalculation declined
applyAndChain(nextOperator) ==
    LET number == Number(displayValue)
        newValue == OPERATIONS(operator, OrZero(value), number)
    IN  /\ IF value = Null
           THEN /\ value' = number
                /\ UNCHANGED <<previousValue, displayValue, isDirty>>
           ELSE /\ value' = newValue
                /\ previousValue' = number
                /\ displayValue' = String(newValue)
                /\ isDirty' = TRUE
        /\ isPending' = TRUE
        /\ previousOperator' = operator
        /\ operator' = nextOperator
        /\ UNCHANGED thrown

calculate(nextOperator) ==
    IF operator = "=" /\ calculateAgainApplies(nextOperator)
    THEN calculateAgain(nextOperator)
    ELSE IF isPending /\ pendingCalculationApplies(nextOperator)
    THEN pendingCalculation(nextOperator)
    ELSE applyAndChain(nextOperator)

\* handleDigit that appends to a "0"
handleDigitKeepsZero(digit) ==
    /\ displayValue' = IF displayValue = <<"-", "0">> THEN <<"-", digit>>
                       ELSE IF isPending THEN <<digit>>
                       ELSE displayValue \o <<digit>>
    /\ isDirty' = TRUE
    /\ isPending' = FALSE
    /\ UNCHANGED <<value, operator, previousValue, previousOperator, thrown>>

handleDigit(digit) ==
    /\ displayValue' = IF displayValue = <<"0">> THEN <<digit>>
                       ELSE IF displayValue = <<"-", "0">> THEN <<"-", digit>>
                       ELSE IF isPending THEN <<digit>>
                       ELSE displayValue \o <<digit>>
    /\ isDirty' = TRUE
    /\ isPending' = FALSE
    /\ UNCHANGED <<value, operator, previousValue, previousOperator, thrown>>

\* handleDot without the test for a decimal point
handleDotAlways ==
    IF isPending
    THEN /\ displayValue' = <<"0", ".">>
         /\ isDirty' = TRUE
         /\ isPending' = FALSE
         /\ UNCHANGED <<value, operator, previousValue, previousOperator, thrown>>
    ELSE /\ displayValue' = displayValue \o <<".">>
         /\ isDirty' = TRUE
         /\ isPending' = FALSE
         /\ UNCHANGED <<value, operator, previousValue, previousOperator, thrown>>

handleDot ==
    IF isPending
    THEN /\ displayValue' = <<"0", ".">>
         /\ isDirty' = TRUE
         /\ isPending' = FALSE
         /\ UNCHANGED <<value, operator, previousValue, previousOperator, thrown>>
    ELSE IF ~HasDot(displayValue)
    THEN /\ displayValue' = displayValue \o <<".">>
         /\ isDirty' = TRUE
         /\ isPending' = FALSE
         /\ UNCHANGED <<value, operator, previousValue, previousOperator, thrown>>
    ELSE UNCHANGED <<displayValue, isDirty, isPending, value, operator,
                     previousValue, previousOperator, thrown>>

\* handleBackspace that resets the display only when it becomes empty
handleBackspaceKeepsMinus ==
    LET newCurrent == SliceLast(displayValue)
    IN  /\ IF newCurrent = <<>>
           THEN /\ displayValue' = <<"0">>
                /\ UNCHANGED isDirty
           ELSE /\ displayValue' = newCurrent
                /\ isDirty' = TRUE
        /\ UNCHANGED <<isPending, value, operator, previousValue, previousOperator, thrown>>

handleBackspace ==
    LET newCurrent == SliceLast(displayValue)
    IN  /\ IF newCurrent = <<>> \/ newCurrent = <<"-">>
           THEN /\ displayValue' = <<"0">>
                /\ UNCHANGED isDirty
           ELSE /\ displayValue' = newCurrent
                /\ isDirty' = TRUE
        /\ UNCHANGED <<isPending, value, operator, previousValue, previousOperator, thrown>>

\* an Escape key that always clears
escapeAlwaysClears == clear

\* the Escape key and the C / AC button: clear when dirty, reset otherwise
escape == IF isDirty THEN clear ELSE reset

(***************************************************************************)
(* The keys pressed, within the bounds of the model.                        *)
(***************************************************************************)
Digits == {"0", "2", "5"}

\* the arithmetic calculate(nextOperator) performs is within the number domain
CalculateInDomain(nextOperator) ==
    IF operator = "=" /\ calculateAgainApplies(nextOperator)
    THEN InDomain(previousOperator, Number(displayValue), OrZero(previousValue))
    ELSE IF isPending /\ pendingCalculationApplies(nextOperator)
    THEN TRUE
    ELSE value # Null => InDomain(operator, OrZero(value), Number(displayValue))

PressDigit(d) == Len(displayValue) < MaxLen /\ handleDigit(d)

PressDot == Len(displayValue) < MaxLen /\ handleDot

PressBackspace == handleBackspace

PressSign == changeSign

PressPercent == handlePercent

PressOperator(op) == CalculateInDomain(op) /\ calculate(op)

PressEscape == escape

\* the key k was pressed in the current state
Pressed(k) == last' = k /\ prev' = state

\* one more key of a session of at most MaxKeys keys
Count == keys < MaxKeys /\ keys' = keys + 1 /\ UNCHANGED <<hist, variant, outside>>

Next ==
    \/ \E d \in Digits : PressDigit(d) /\ Pressed(d) /\ Count
    \/ PressDot /\ Pressed(".") /\ Count
    \/ PressBackspace /\ Pressed("Backspace") /\ Count
    \/ PressSign /\ Pressed("Sign") /\ Count
    \/ PressPercent /\ Pressed("%") /\ Count
    \/ \E op \in Operators : PressOperator(op) /\ Pressed(op) /\ Count
    \/ PressEscape /\ Pressed("Escape") /\ Count

Spec == Init /\ [][Next]_vars

(***************************************************************************)
(* Scripted sessions: digit, operator and sign keys from the mounted        *)
(* component, every key recorded in hist.                                   *)
(***************************************************************************)
\* number of the keys of h that are in the set ks
CountKeys(h, ks) == Cardinality({i \in 1..Len(h) : h[i] \in ks})

\* number of operator keys of h, an "=" right after an "=" not counted
CountOps(h) ==
    Cardinality({i \in 1..Len(h) : /\ h[i] \in Operators
                                   /\ ~(i > 1 /\ h[i] = "=" /\ h[i - 1] = "=")})

\* the digit keys of the scripted sessions
ScriptDigits == {"0", "5"}

\* a scripted session starts with a digit and is bounded in its keys: at most
\* half of them are operator keys
Script(k) ==
    /\ Len(hist) < MaxHist
    /\ hist = <<>> => k \in ScriptDigits
    /\ k \in Operators => 2 * CountOps(Append(hist, k)) <= MaxHist
    /\ k = "Sign" => CountKeys(hist, {"Sign"}) < MaxSigns
    /\ hist' = Append(hist, k)
    /\ UNCHANGED <<keys, variant, outside>>

NextKeys ==
    \/ \E d \in ScriptDigits : PressDigit(d) /\ Pressed(d) /\ Script(d)
    \/ PressSign /\ Pressed("Sign") /\ Script("Sign")
    \/ \E op \in Operators : PressOperator(op) /\ Pressed(op) /\ Script(op)

SpecKeys == Init /\ [][NextKeys]_vars

(***************************************************************************)
(* Percent sessions: a short operand is typed, then only the percent key.   *)
(***************************************************************************)
NextPercent ==
    \/ \E d \in Digits : /\ Len(displayValue) < MaxPercentDigits
                         /\ handleDigit(d) /\ Pressed(d) /\ UNCHANGED <<keys, hist, variant, outside>>
    \/ handlePercent /\ Pressed("%") /\ UNCHANGED <<keys, hist, variant, outside>>

SpecPercent == Init /\ [][NextPercent]_vars

(***************************************************************************)
(* The earlier variant of the component (part_001): its handlers as         *)
(* functions of its state v, and sessions in which both variants are given  *)
(* the same keys.                                                           *)
(***************************************************************************)
part001_changeSign(v) ==
    IF v.isPending /\ v.operator # "="
    THEN [v EXCEPT !.current = <<"-", "0">>, !.isPending = FALSE]
    ELSE [v EXCEPT !.current = IF StartsWithMinus(v.current)
                                THEN Slice1(v.current)
                                ELSE <<"-">> \o v.current,
                   !.value = IF v.operator = "=" /\ ~v.isPending
                             THEN Neg(Number(v.current)) ELSE @]

\* a toFixed that throws leaves the state as it is
part001_handlePercent(v) ==
    LET number == Number(v.current)
        decimalPart == DecimalPart(v.current)
        newValue == Div100(number)
    IN  IF IsZero(number) THEN v
        ELSE IF Len(decimalPart) + 2 > ToFixedMax THEN v
        ELSE [v EXCEPT !.current = ToFixed(newValue, Len(decimalPart) + 2)]

\* the guard of calculateAgain: it returns true and acts
part001_calculateAgainApplies(v, nextOperator) ==
    ~(v.lastOperator = "=" \/ nextOperator # "=")

\* the guard of pendingCalculation: it returns true and acts
part001_pendingCalculationApplies(v, nextOperator) ==
    ~(nextOperator = "=" /\ v.operator # "=")

part001_calculateAgain(v, nextOperator) ==
    LET newValue == OPERATIONS(v.lastOperator, Number(v.current), v.lastValue)
    IN  [v EXCEPT !.value = newValue,
                  !.current = String(newValue),
                  !.isPending = TRUE]

part001_pendingCalculation(v, nextOperator) ==
    [v EXCEPT !.operator = nextOperator]

part001_calculate(v, nextOperator) ==
    IF v.operator = "=" /\ part001_calculateAgainApplies(v, nextOperator)
    THEN part001_calculateAgain(v, nextOperator)
    ELSE IF v.isPending /\ part001_pendingCalculationApplies(v, nextOperator)
    THEN part001_pendingCalculation(v, nextOperator)
    ELSE LET number == Number(v.current)
             newValue == OPERATIONS(v.operator, OrZero(v.value), number)
         IN  [v EXCEPT !.value = IF v.value = Null THEN number ELSE newValue,
                       !.lastValue = IF v.value = Null THEN @ ELSE number,
                       !.current = IF v.value = Null THEN @ ELSE String(newValue),
                       !.isPending = TRUE,
                       !.lastOperator = v.operator,
                       !.operator = nextOperator]

part001_handleDigit(v, digit) ==
    [v EXCEPT !.current = IF v.current = <<"0">> \/ v.isPending THEN <<digit>>
                          ELSE IF v.current = <<"-", "0">> THEN <<"-", digit>>
                          ELSE v.current \o <<digit>>,
              !.isPending = FALSE]

part001_handleDot(v) ==
    IF v.isPending
    THEN [v EXCEPT !.current = <<"0", ".">>, !.isPending = FALSE]
    ELSE IF ~HasDot(v.current)
    THEN [v EXCEPT !.current = v.current \o <<".">>, !.isPending = FALSE]
    ELSE v

part001_handleBackspace(v) ==
    LET newCurrent == SliceLast(v.current)
    IN  IF newCurrent = <<>> \/ newCurrent = <<"-">>
        THEN [v EXCEPT !.current = <<"0">>]
        ELSE [v EXCEPT !.current = newCurrent]

\* the arithmetic part001's calculate(nextOperator) performs is within the
\* number domain
part001_CalculateInDomain(v, nextOperator) ==
    IF v.operator = "=" /\ part001_calculateAgainApplies(v, nextOperator)
    THEN InDomain(v.lastOperator, Number(v.current), v.lastValue)
    ELSE IF v.isPending /\ part001_pendingCalculationApplies(v, nextOperator)
    THEN TRUE
    ELSE v.value # Null => InDomain(v.operator, OrZero(v.value), Number(v.current))

\* one more key of a session of at most MaxBothKeys keys given to both variants
CountBoth == keys < MaxBothKeys /\ keys' = keys + 1 /\ UNCHANGED hist

\* an operator key pressed while the display reads NaN or negative zero
OddOperand == Number(displayValue) \in {NaN, Neg(Zero)}

NextBoth ==
    \/ \E d \in ScriptDigits :
          /\ PressDigit(d) /\ Pressed(d) /\ CountBoth
          /\ variant' = part001_handleDigit(variant, d)
          /\ UNCHANGED outside
    \/ /\ PressDot /\ Pressed(".") /\ CountBoth
       /\ variant' = part001_handleDot(variant)
       /\ UNCHANGED outside
    \/ /\ PressBackspace /\ Pressed("Backspace") /\ CountBoth
       /\ variant' = part001_handleBackspace(variant)
       /\ outside' = TRUE
    \/ /\ PressSign /\ Pressed("Sign") /\ CountBoth
       /\ variant' = part001_changeSign(variant)
       /\ outside' = TRUE
    \/ /\ PressPercent /\ Pressed("%") /\ CountBoth
       /\ variant' = part001_handlePercent(variant)
       /\ UNCHANGED outside
    \/ \E op \in Operators :
          /\ PressOperator(op) /\ Pressed(op) /\ CountBoth
          /\ part001_CalculateInDomain(variant, op)
          /\ variant' = part001_calculate(variant, op)
          /\ outside' = (outside \/ OddOperand)

SpecBoth == Init /\ [][NextBoth]_vars

(***************************************************************************)
(* Reading a recorded key sequence.                                         *)
(***************************************************************************)
Binary == {"+", "-", "*", "/"}

\* the key sequence with every run of digit keys written as one "D"
RECURSIVE Shape(_)
Shape(h) ==
    IF h = <<>> THEN <<>>
    ELSE LET r == Shape(SliceLast(h))
             k == h[Len(h)]
         IN  IF k \in ScriptDigits
             THEN (IF r # <<>> /\ r[Len(r)] = "D" THEN r ELSE Append(r, "D"))
             ELSE Append(r, k)

\* the runs of digit keys of the key sequence, in order
RECURSIVE Runs(_)
Runs(h) ==
    IF h = <<>> THEN <<>>
    ELSE LET r == Runs(SliceLast(h))
             k == h[Len(h)]
         IN  IF k \notin ScriptDigits THEN r
             ELSE IF Len(h) > 1 /\ h[Len(h) - 1] \in ScriptDigits
                  THEN [r EXCEPT ![Len(r)] = Append(@, k)]
             ELSE Append(r, <<k>>)

\* the number typed as the n-th run of digit keys
Operand(h, n) == IntNum(DigitsToNat(Runs(h)[n]))

(***************************************************************************)
(* C1: from the mounted component, digits(a), calculate(op), digits(b),     *)
(* calculate('=') with op one of + - * / (b # 0 for /) ends with            *)
(* displayValue the decimal text of op(a, b) and value = op(a, b).          *)
(***************************************************************************)
C1_RoundTrip ==
    LET sh == Shape(hist)
    IN  (/\ Len(sh) = 4
         /\ sh[1] = "D" /\ sh[2] \in Binary /\ sh[3] = "D" /\ sh[4] = "="
         /\ sh[2] = "/" => ~IsZero(Operand(hist, 2)))
        => LET r == OPERATIONS(sh[2], Operand(hist, 1), Operand(hist, 2))
           IN  displayValue = String(r) /\ value = r

C1_Witness ==
    /\ hist = <<"5", "-", "5", "0", "=">>
    /\ displayValue = <<"-", "4", "5">>

(***************************************************************************)
(* C2: chained operators are evaluated left to right: after digits(a), op1, *)
(* digits(b), op2 the display shows op1(a, b) and previousValue is b; after *)
(* digits(c) and '=' the display shows op2(op1(a, b), c).                   *)
(***************************************************************************)
C2_LeftToRight ==
    LET sh == Shape(hist)
    IN  /\ (/\ Len(sh) = 4
            /\ sh[1] = "D" /\ sh[2] \in Binary /\ sh[3] = "D" /\ sh[4] \in Binary)
           => /\ displayValue = String(OPERATIONS(sh[2], Operand(hist, 1), Operand(hist, 2)))
              /\ previousValue = Operand(hist, 2)
        /\ (/\ Len(sh) = 6
            /\ sh[1] = "D" /\ sh[2] \in Binary /\ sh[3] = "D" /\ sh[4] \in Binary
            /\ sh[5] = "D" /\ sh[6] = "=")
           => displayValue =
                 String(OPERATIONS(sh[4],
                                   OPERATIONS(sh[2], Operand(hist, 1), Operand(hist, 2)),
                                   Operand(hist, 3)))

(***************************************************************************)
(* C3: repeat-equals: after digits(a), op, digits(b), '=' every further '=' *)
(* replaces displayValue and value by op(number on the display, b), sets    *)
(* isPending and isDirty and leaves operator, previousOperator and          *)
(* previousValue unchanged.                                                 *)
(***************************************************************************)
RepeatedEquals(sh) ==
    /\ Len(sh) >= 5
    /\ sh[1] = "D" /\ sh[2] \in Binary /\ sh[3] = "D"
    /\ \A i \in 4..Len(sh) : sh[i] = "="

C3_RepeatEquals ==
    LET sh == Shape(hist)
    IN  RepeatedEquals(sh)
        => LET r == OPERATIONS(sh[2], Number(prev.displayValue), Operand(hist, 2))
           IN  /\ displayValue = String(r)
               /\ value = r
               /\ isPending /\ isDirty
               /\ operator = "=" /\ operator = prev.operator
               /\ previousOperator = sh[2] /\ previousOperator = prev.previousOperator
               /\ previousValue = Operand(hist, 2) /\ previousValue = prev.previousValue

C3_Witness ==
    /\ hist = <<"5", "0", "/", "5", "=", "=">>
    /\ prev.displayValue = <<"1", "0">>
    /\ displayValue = <<"2">>

(***************************************************************************)
(* C8: sign toggle right after choosing an operator: digits(a), op, sign    *)
(* yields displayValue "-0", isPending false and isDirty true with operator *)
(* and value unchanged; a following digit d shows "-d" and '=' then shows   *)
(* op(a, -d).                                                               *)
(***************************************************************************)
C8_SignAfterOperator ==
    LET sh == Shape(hist)
    IN  /\ (Len(sh) = 3 /\ sh[1] = "D" /\ sh[2] \in Binary /\ sh[3] = "Sign")
           => /\ displayValue = <<"-", "0">>
              /\ ~isPending /\ isDirty
              /\ operator = sh[2] /\ operator = prev.operator
              /\ value = Operand(hist, 1) /\ value = prev.value
        /\ (/\ Len(sh) = 4 /\ sh[1] = "D" /\ sh[2] \in Binary /\ sh[3] = "Sign"
            /\ sh[4] = "D" /\ Len(Runs(hist)[2]) = 1)
           => displayValue = <<"-">> \o Runs(hist)[2]
        /\ (/\ Len(sh) = 5 /\ sh[1] = "D" /\ sh[2] \in Binary /\ sh[3] = "Sign"
            /\ sh[4] = "D" /\ Len(Runs(hist)[2]) = 1 /\ sh[5] = "=")
           => displayValue =
                 String(OPERATIONS(sh[2], Operand(hist, 1), Neg(Operand(hist, 2))))

C8_Witness ==
    /\ hist = <<"5", "0", "+", "Sign", "5", "=">>
    /\ displayValue = <<"4", "5">>

(***************************************************************************)
(* C4: pending-operator swap: when isPending holds, it is not the case that *)
(* nextOperator is '=' while operator is not, and repeat-equals does not    *)
(* apply, calculate(nextOperator) changes operator only; so of several      *)
(* operator keys in a row only the last one is applied.                     *)
(***************************************************************************)
SwapCase ==
    /\ last \in Operators
    /\ prev.isPending
    /\ ~(last = "=" /\ prev.operator # "=")
    /\ ~(prev.operator = "=" /\ last = "=" /\ prev.previousOperator # "=")

C4_PendingSwap ==
    LET sh == Shape(hist)
    IN  /\ SwapCase => state = [prev EXCEPT !.operator = last]
        /\ (/\ Len(sh) = 5
            /\ sh[1] = "D" /\ sh[2] \in Binary /\ sh[3] \in Binary /\ sh[4] = "D"
            /\ sh[5] = "=")
           => displayValue = String(OPERATIONS(sh[3], Operand(hist, 1), Operand(hist, 2)))

C4_Witness ==
    /\ hist = <<"5", "+", "*", "5", "=">>
    /\ displayValue = <<"2", "5">>

(***************************************************************************)
(* C5: in every reachable state displayValue parses to a finite number,     *)
(* with at most one leading '-' and at most one '.'.                        *)
(***************************************************************************)
\* number of leading '-' characters
RECURSIVE LeadingMinuses(_)
LeadingMinuses(str) ==
    IF StartsWithMinus(str) THEN 1 + LeadingMinuses(Slice1(str)) ELSE 0

CountChar(str, c) == Cardinality({i \in 1..Len(str) : str[i] = c})

C5_FiniteDisplay ==
    /\ Number(displayValue).k = "fin"
    /\ LeadingMinuses(displayValue) <= 1
    /\ CountChar(displayValue, ".") <= 1

\* C5 as amended: in every reachable state displayValue has at most one
\* leading '-' and at most one '.'; it need not parse to a finite number
C5_SignAndPoint ==
    /\ LeadingMinuses(displayValue) <= 1
    /\ CountChar(displayValue, ".") <= 1

C5_Witness ==
    /\ last = "."
    /\ HasDot(prev.displayValue) /\ StartsWithMinus(prev.displayValue)
    /\ ~prev.isPending
    /\ displayValue = prev.displayValue

(***************************************************************************)
(* C6: no operation raises an exception in any reachable state, percent     *)
(* applied repeatedly included.                                             *)
(***************************************************************************)
C6_NoException == ~thrown

(***************************************************************************)
(* C7: clear() changes no state other than displayValue (to "0") and        *)
(* isDirty (to false).                                                      *)
(***************************************************************************)
ClearCase == last = "Escape" /\ prev.isDirty

C7_ClearFrame ==
    ClearCase => state = [prev EXCEPT !.displayValue = <<"0">>, !.isDirty = FALSE]

\* C7 as amended: clear() sets displayValue to "0" and isDirty to false, sets
\* isPending to true when operator is not '=', and changes nothing else
C7_ClearFrameAmended ==
    ClearCase => state = [prev EXCEPT !.displayValue = <<"0">>,
                                      !.isDirty = FALSE,
                                      !.isPending = (@ \/ prev.operator # "=")]

C7_Witness ==
    /\ ClearCase
    /\ prev.operator # "=" /\ ~prev.isPending /\ isPending
    /\ prev.value # Null /\ prev.previousValue # Null

(***************************************************************************)
(* C9: percent() on a displayValue that parses to a non-zero number n with  *)
(* k fractional digits replaces it by n / 100 written with k + 2 fractional *)
(* digits and sets isDirty; on zero it changes nothing; isPending, value,   *)
(* operator, previousValue and previousOperator are unchanged.              *)
(***************************************************************************)
\* number of characters after the decimal point
FractionDigits(str) ==
    IF HasDot(str) THEN Len(str) - (CHOOSE i \in 1..Len(str) : str[i] = ".") ELSE 0

C9_Percent ==
    last = "%"
    => LET n == Number(prev.displayValue)
       IN  /\ (n.k = "fin" /\ ~IsZero(n))
              => /\ Number(displayValue) = Div100(n)
                 /\ FractionDigits(displayValue) = FractionDigits(prev.displayValue) + 2
                 /\ isDirty
           /\ IsZero(n) => state = prev
           /\ state = [prev EXCEPT !.displayValue = displayValue, !.isDirty = isDirty]

(***************************************************************************)
(* C10: allClear() yields exactly the initial state.                        *)
(***************************************************************************)
ResetCase == last = "Escape" /\ ~prev.isDirty

C10_AllClear == ResetCase => state = InitialState

C10_Witness ==
    /\ ResetCase
    /\ prev.operator # "=" /\ prev.isPending
    /\ prev.value # Null /\ prev.previousValue # Null
    /\ state = InitialState

(***************************************************************************)
(* C11: in every reachable state displayValue is neither empty nor the bare *)
(* "-"; backspace on a one-character value, on "0" or on "-" followed by    *)
(* one character yields "0", any other backspace removes the last           *)
(* character, so repeated backspace ends and stays at "0".                  *)
(***************************************************************************)
C11_NeverEmpty ==
    /\ displayValue \notin {<<>>, <<"-">>}
    /\ last = "Backspace"
       => IF \/ Len(prev.displayValue) <= 1
             \/ (Len(prev.displayValue) = 2 /\ StartsWithMinus(prev.displayValue))
          THEN displayValue = <<"0">>
          ELSE /\ displayValue = SliceLast(prev.displayValue)
               /\ Len(displayValue) = Len(prev.displayValue) - 1

C11_Witness ==
    /\ last = "Backspace"
    /\ Len(prev.displayValue) = 2 /\ StartsWithMinus(prev.displayValue)
    /\ prev.displayValue # <<"-", "0">>
    /\ displayValue = <<"0">>

(***************************************************************************)
(* C12: dot() never produces a second decimal point: displayValue has at    *)
(* most one '.', a dot on a non-pending displayValue that has one changes   *)
(* nothing, and after a dot displayValue has exactly one '.' and isPending  *)
(* is false, so that a second dot changes nothing.                          *)
(***************************************************************************)
C12_OneDecimalPoint ==
    /\ CountChar(displayValue, ".") <= 1
    /\ (last = "." /\ ~prev.isPending /\ HasDot(prev.displayValue)) => state = prev
    /\ last = "." => (CountChar(displayValue, ".") = 1 /\ ~isPending)

C12_Witness ==
    /\ last = "."
    /\ prev.displayValue = <<"0", ".">> /\ ~prev.isPending
    /\ state = prev

(***************************************************************************)
(* C14: Escape dispatch: an Escape key clears when isDirty is true and      *)
(* resets otherwise; an Escape pressed right after an Escape, or while      *)
(* isDirty is false, leaves exactly the initial state.                      *)
(***************************************************************************)
C14_EscapeDispatch ==
    [][last' = "Escape"
       => /\ isDirty => (displayValue' = <<"0">> /\ ~isDirty')
          /\ (~isDirty \/ last = "Escape") => state' = InitialState]_vars

C14_Witness ==
    /\ last = "Escape"
    /\ ~prev.isDirty /\ prev.displayValue = <<"0">>
    /\ prev.operator # "=" /\ prev.isPending
    /\ prev.value # Null /\ ~IsZero(prev.value) /\ prev.previousValue = Null
    /\ state = InitialState

(***************************************************************************)
(* C16: fresh operand after an operator: in every reachable state with      *)
(* isPending true, digit(d) sets displayValue to exactly the digit d and    *)
(* isPending to false, and dot() sets displayValue to "0." and isPending to *)
(* false.                                                                   *)
(***************************************************************************)
C16_FreshOperand ==
    /\ (last \in Digits /\ prev.isPending)
       => (displayValue = <<last>> /\ ~isPending)
    /\ (last = "." /\ prev.isPending)
       => (displayValue = <<"0", ".">> /\ ~isPending)

(***************************************************************************)
(* C18: after calculate(x), for every x of + - * / = and whichever of       *)
(* repeat-equals, pending-operator swap and apply-and-chain is taken,       *)
(* operator is x and isPending is true.                                     *)
(***************************************************************************)
C18_OperatorIsLastKey ==
    last \in Operators => (operator = last /\ isPending)

C18_Witness ==
    /\ last = "*"
    /\ prev.isPending /\ prev.operator = "+"
    /\ operator = "*" /\ isPending

(***************************************************************************)
(* C19: in every reachable state, isDirty false implies displayValue is "0" *)
(* or "-0".                                                                 *)
(***************************************************************************)
C19_CleanShowsZero ==
    ~isDirty => displayValue \in {<<"0">>, <<"-", "0">>}

C19_Witness ==
    /\ ~isDirty
    /\ displayValue = <<"-", "0">>
    /\ value # Null

(***************************************************************************)
(* C20: in every reachable state, value null implies operator '=',          *)
(* previousOperator '=', previousValue null and isPending false; a binary   *)
(* operator is never pending on a null value, and previousOperator is not   *)
(* '=' only with a previousValue that is not null.                          *)
(***************************************************************************)
C20_NullAccumulator ==
    /\ value = Null
       => /\ operator = "=" /\ previousOperator = "="
          /\ previousValue = Null /\ ~isPending
    /\ operator \in Binary => value # Null
    /\ previousOperator # "=" => previousValue # Null

C20_Witness ==
    /\ last = "Escape"
    /\ prev.value # Null /\ prev.previousOperator # "="
    /\ value = Null /\ operator = "=" /\ ~isPending

(***************************************************************************)
(* C13: from the mounted component, after every press of a sequence of      *)
(* digit keys displayValue is the typed digits with leading zeros           *)
(* collapsed ("0" when only zeros were typed), isDirty is true and          *)
(* isPending is false.                                                      *)
(***************************************************************************)
C13_DigitEntry ==
    Shape(hist) = <<"D">>
    => /\ displayValue = IF Significant(hist) = <<>> THEN <<"0">> ELSE Significant(hist)
       /\ isDirty /\ ~isPending

C13_Witness ==
    /\ hist = <<"0", "0", "5", "0">>
    /\ displayValue = <<"5", "0">>

(***************************************************************************)
(* C15: the left operand of a new operation is the number on the display:   *)
(* a binary operator key op pressed while operator is '=', followed by      *)
(* digits(b) and '=', shows op(v, b) with v the number on the display when  *)
(* op was pressed, also when the result of a preceding '=' was edited by    *)
(* changeSign before op was pressed.                                        *)
(***************************************************************************)
C15_LeftOperandIsDisplay ==
    LET sh == Shape(hist)
    IN  /\ (/\ Len(sh) = 5
            /\ sh[1] = "D" /\ sh[2] = "=" /\ sh[3] \in Binary /\ sh[4] = "D"
            /\ sh[5] = "=")
           => displayValue = String(OPERATIONS(sh[3], Operand(hist, 1), Operand(hist, 2)))
        /\ (/\ Len(sh) = 6
            /\ sh[1] = "D" /\ sh[2] = "=" /\ sh[3] = "Sign" /\ sh[4] \in Binary
            /\ sh[5] = "D" /\ sh[6] = "=")
           => displayValue =
                 String(OPERATIONS(sh[4], Neg(Operand(hist, 1)), Operand(hist, 2)))

(***************************************************************************)
(* C17: the two variants of the component are the same state machine apart  *)
(* from clear handling: given the same keys of digit, dot, backspace,       *)
(* changeSign, percent and calculate from the mounted component, both show  *)
(* the same displayValue and hold the same operator and isPending after     *)
(* every key.                                                               *)
(***************************************************************************)
SameMachine ==
    /\ variant.current = displayValue
    /\ variant.operator = operator
    /\ variant.isPending = isPending

C17_SameMachine == keys > 0 => SameMachine

\* C17 as amended: the variants also differ in handleDigit (part_001 tests
\* isPending before "-0"), in changeSign (part_001 also sets value when
\* operator is '=' and isPending is false) and in repeat-equals (lastValue
\* where Calculator.js has previousValue || 0); given the same keys of digit,
\* dot, percent and calculate, no operator key pressed while the display
\* reads NaN or negative zero, both show the same displayValue and hold the
\* same operator and isPending after every key
C17_SameMachineAmended == (keys > 0 /\ ~outside) => SameMachine

C17_Witness ==
    /\ ~outside
    /\ last = "=" /\ prev.operator = "=" /\ prev.previousOperator \in Binary
    /\ HasDot(displayValue)
    /\ SameMachine

====
